---- MODULE Spec2Model ----
(***************************************************************************)
(* Servo-Motor-Test firmware (APOPHIS): the main program with its bring-up *)
(* sequence, the button gate, the command loop and the shutdown sequence,  *)
(* and the two interrupt handlers SysTickIntHandler and ConsoleIntHandler. *)
(*                                                                         *)
(* Execution model.  One processor.  The main context advances one memory  *)
(* access or one library call per step (pc).  An interrupt handler runs to *)
(* completion between two steps of main whenever interrupts are globally   *)
(* enabled and its source is enabled; the two handlers have the same       *)
(* priority, so neither preempts the other.                                *)
(*                                                                         *)
(* The globals shared by main and the handlers are not volatile.  The      *)
(* variable optimized is the build: FALSE is a build that goes to memory   *)
(* for every access written in the source, TRUE one that may keep a global *)
(* in a register while no call or store of main's own code changes it.     *)
(***************************************************************************)
EXTENDS Integers, Sequences, FiniteSets, TLC

\* ------------------------------------------------------------------ bounds
\* Number of SysTick interrupts served in one run.
MaxTicks == 12
\* Number of console bytes received in one run.
MaxRx == 3
\* Largest PWM generator period of the range-computation specification.
MaxPeriod == 1100
\* Number of console bytes received in one run of the decrease-only
\* specification.
MaxDec == 27

\* ---------------------------------------------------- 32-bit unsigned words
\* A uint32_t is the pair <<high half, low half>> of 16-bit halves.
Half == 65536

ToU32(n) == <<(n \div Half) % Half, n % Half>>

Add32(a, b) ==
    LET lo == a[2] + b[2]
    IN  <<(a[1] + b[1] + (lo \div Half)) % Half, lo % Half>>

Sub32(a, b) ==
    LET lo == a[2] - b[2]
        borrow == IF lo < 0 THEN 1 ELSE 0
    IN  <<(a[1] - b[1] - borrow + 2 * Half) % Half, (lo + Half) % Half>>

\* a * k for a small k (k * Half stays far below the checker's integers)
Mul32(a, k) ==
    LET lo == a[2] * k
    IN  <<(a[1] * k + (lo \div Half)) % Half, lo % Half>>

\* a / d, unsigned division by a small d
Div32(a, d) ==
    LET r == a[1] % d
    IN  <<a[1] \div d, (r * Half + a[2]) \div d>>

Zero32 == <<0, 0>>

\* ------------------------------------------------------------------- inputs
\* Bytes the console can deliver: the six commands and one other byte.
Chars == {"M", "Q", "w", "s", "x", "e", "z"}
\* The bytes of the decrease-only specification.
DecChars == {"s"}

\* PWM generator periods InitServoMtrs can return (sysClockSpeed / 64 /
\* SERVO_FREQUENCY; SERVO_FREQUENCY comes from a header of the board).
Periods == {1000, 37500}

\* Button masks of misc/buttons.h as sets of pressed buttons.
LEFT_BUTTON == {"left"}
RIGHT_BUTTON == {"right"}
ALL_BUTTONS == {"left", "right"}
ButtonMasks == SUBSET ALL_BUTTONS

LEDs == 1..4

VARIABLES
    \* the build
    optimized,
    \* globals of the program
    g_SysTickCount, g_LED4On, g_CharConsole, g_ConsoleFlag, g_Quit,
    g_StartPosition, g_EndPosition, g_ui32AngleIncrement, g_ui32ServoAngle,
    \* hardware
    led,            \* LED pins 1..4, TRUE = lit
    pwm,            \* pulse widths of <<SERVO_1, SERVO_2>>
    pwmPeriod,      \* period of PWM generator 3
    pwmGenEnabled,  \* PWMGenEnable done
    sysTickEnabled, \* SysTickEnable done
    intMaster,      \* processor accepts interrupts
    intSources,     \* interrupt sources enabled at their peripheral
    uartOut,        \* the console output calls of the latest step that
                    \* wrote to the console, in order
    byeCount,       \* how many times the shutdown message was printed
    \* main context
    pc, m_char, m_ret, m_reg, actualButtonState,
    \* history
    ticks,          \* invocations of SysTickIntHandler
    rxCount,        \* invocations of ConsoleIntHandler (bytes received)
    calls,          \* calls of Menu so far, by call site
    lastMenu,       \* the most recent piece of Menu that ran
    wRun,           \* length of the current run of 'w' commands, or -1
    lastPoll,       \* most recent ButtonsPoll of WaitForButtonPress
    isrTrace        \* what the latest run of ConsoleIntHandler did, in order

globals == <<g_SysTickCount, g_LED4On, g_CharConsole, g_ConsoleFlag, g_Quit,
             g_StartPosition, g_EndPosition, g_ui32AngleIncrement,
             g_ui32ServoAngle>>
hw == <<led, pwm, pwmPeriod, pwmGenEnabled, sysTickEnabled, intMaster,
        intSources, uartOut, byeCount>>
mainCtx == <<pc, m_char, m_ret, m_reg, actualButtonState>>
history == <<ticks, rxCount, calls, lastMenu, wRun, lastPoll, isrTrace>>
vars == <<optimized, globals, hw, mainCtx, history>>

\* ------------------------------------------------------------ pure helpers
\* One call of a console output function: UARTprintf of a text (with the
\* number it formats, if any) or UARTCharPutNonBlocking of a byte.
Out(msg, ch, val) == [msg |-> msg, ch |-> ch, val |-> val]
Text(msg) == Out(msg, "", <<>>)
Num(msg, val) == Out(msg, "", <<val>>)
Echo(ch) == Out("echo", ch, <<>>)

\* SysTickIntHandler: the test that decides a toggle.
SysTickThreshold == 5
\* (variant: the toggle one tick later, > for >=)
SysTickExpired_Late(count) == count > SysTickThreshold
SysTickExpired(count) == count >= SysTickThreshold

\* main: (uint32_t)(speed * 0.025), speed the PWM period as a float.
StartPositionOf(period) == ToU32((period * 25) \div 1000)
\* (variant: an end position of four times the start position)
EndPositionOf_Times4(start) == Mul32(start, 4)
\* main: g_StartPosition * 5
EndPositionOf(start) == Mul32(start, 5)
\* (variant: the step taken from the end position alone)
AngleIncrementOf_NoSub(start, end) == Div32(end, 100)
\* main: (g_EndPosition - g_StartPosition) / 100
AngleIncrementOf(start, end) == Div32(Sub32(end, start), 100)

\* TurnOnLED / TurnOffLED: the pins one call writes.
LEDPins(LEDNum) == IF LEDNum \in LEDs THEN {LEDNum} ELSE LEDs
TurnOnLED(l, LEDNum) ==
    [n \in LEDs |-> IF n \in LEDPins(LEDNum) THEN TRUE ELSE l[n]]
TurnOffLED(l, LEDNum) ==
    [n \in LEDs |-> IF n \in LEDPins(LEDNum) THEN FALSE ELSE l[n]]
\* The two GPIOPinWrite calls of the default case, one port each.
LEDPort1 == {1, 2}
LEDPort2 == {3, 4}
PortWrite(l, pins, on) == [n \in LEDs |-> IF n \in pins THEN on ELSE l[n]]

\* WaitForButtonPress: the mask kept from a poll inside the loop, and the
\* loop's exit test, for each desiredButtonState.
\* (variant: the poll inside the loop kept without the AND)
WaitMasked_NoAnd(desired, polled) == polled
WaitMasked(desired, polled) ==
    IF desired \in {LEFT_BUTTON, RIGHT_BUTTON, ALL_BUTTONS}
    THEN polled \cap desired
    ELSE polled
WaitDone(desired, actual) ==
    IF desired \in {LEFT_BUTTON, RIGHT_BUTTON, ALL_BUTTONS}
    THEN actual = desired
    ELSE TRUE

\* Menu: the case labels of the switch.
MenuCases == {"Q", "M", "w", "s", "x", "e"}
\* Menu: the value a command stores in g_ui32ServoAngle.
MenuMovesServo(ch) == ch \in {"w", "s", "x", "e"}
\* (variant: 'w' and 's' exchanged)
MenuAngle_Swapped(ch, angle, start, end, inc) ==
    CASE ch = "w" -> Sub32(angle, inc)
      [] ch = "s" -> Add32(angle, inc)
      [] ch = "x" -> start
      [] ch = "e" -> end
      [] OTHER -> angle
\* (variant: 'x' and 'e' move by the whole range instead of to its ends)
MenuAngle_Relative(ch, angle, start, end, inc) ==
    CASE ch = "w" -> Add32(angle, inc)
      [] ch = "s" -> Sub32(angle, inc)
      [] ch = "x" -> Sub32(angle, Sub32(end, start))
      [] ch = "e" -> Add32(angle, Sub32(end, start))
      [] OTHER -> angle
\* (variant: 's' stops at g_StartPosition)
MenuAngle_Clamped(ch, angle, start, end, inc) ==
    LET lt(a, b) == a[1] < b[1] \/ (a[1] = b[1] /\ a[2] < b[2])
        down == Sub32(angle, inc)
    IN  CASE ch = "w" -> Add32(angle, inc)
          [] ch = "s" -> IF lt(down, start) \/ lt(angle, inc)
                         THEN start ELSE down
          [] ch = "x" -> start
          [] ch = "e" -> end
          [] OTHER -> angle
MenuAngle(ch, angle, start, end, inc) ==
    CASE ch = "w" -> Add32(angle, inc)
      [] ch = "s" -> Sub32(angle, inc)
      [] ch = "x" -> start
      [] ch = "e" -> end
      [] OTHER -> angle
\* Menu: the text a command prints.
MenuLabel(ch) ==
    CASE ch = "w" -> "Angle Increase"
      [] ch = "s" -> "Angle Decrease"
      [] ch = "x" -> "Start Position"
      [] ch = "e" -> "End Position"
      [] OTHER -> "Menu"
\* (variant: a byte outside the command set is answered with a message)
MenuPrints_Default(ch, val) ==
    IF MenuMovesServo(ch) THEN <<Num(MenuLabel(ch), val)>>
    ELSE IF ch = "M" THEN <<Text(MenuLabel(ch))>>
    ELSE IF ch = "Q" THEN <<>>
    ELSE <<Text("Unknown")>>
MenuPrints(ch, val) ==
    IF MenuMovesServo(ch) THEN <<Num(MenuLabel(ch), val)>>
    ELSE IF ch = "M" THEN <<Text(MenuLabel(ch))>>
    ELSE <<>>
\* (variant: Menu leaves the byte marked as pending for the main loop)
MenuFlag_Pending(flag) == TRUE
\* Menu: g_ConsoleFlag after a call ("Reset the flag").
MenuFlag(flag) == FALSE
\* Menu: g_Quit after a command.
\* (variant: 'Q' toggles the flag)
MenuQuit_Toggle(ch, quit) == IF ch = "Q" THEN ~quit ELSE quit
MenuQuit(ch, quit) == IF ch = "Q" THEN TRUE ELSE quit

\* Menu: the accesses of one call, in program order.
MenuTrace(ch) ==
    (IF ch = "Q" THEN <<"quit">>
     ELSE IF ch = "M" THEN <<"print">>
     ELSE IF MenuMovesServo(ch) THEN <<"angle", "pwm1", "pwm2", "print">>
     ELSE <<>>) \o <<"flag">>
\* (variant: the handler echoes the byte after Menu has returned)
ConsoleIntTrace_EchoLast(ch) == <<"get">> \o MenuTrace(ch) \o <<"echo">>
\* ConsoleIntHandler: the accesses of one run, in program order.
ConsoleIntTrace(ch) == <<"get", "echo">> \o MenuTrace(ch)
\* The console output calls of a run of ConsoleIntHandler, in the order of
\* its trace.
TraceOutput(trace, ch, printed) ==
    LET F[i \in 0..Len(trace)] ==
            IF i = 0 THEN <<>>
            ELSE F[i - 1] \o (IF trace[i] = "echo" THEN <<Echo(ch)>>
                              ELSE IF trace[i] = "print" THEN printed
                              ELSE <<>>)
    IN  F[Len(trace)]

\* lastMenu: the most recent piece of Menu that ran.  For ConsoleIntHandler
\* a piece is its whole call of Menu; for main it is one step of a call of
\* Menu.  wRun counts the commands 'w' dispatched in a row (no other piece
\* of Menu in between) since g_ui32ServoAngle was g_StartPosition; -1 when
\* the servo has left that course.
MenuPiece(ctx, ch, rep, angle, pw, printed) ==
    [ctx |-> ctx, ch |-> ch, rep |-> rep, angle |-> angle, pwm |-> pw,
     printed |-> printed]
NoPiece == MenuPiece("none", "", 0, Zero32, <<Zero32, Zero32>>, <<>>)
\* How many times in a row ConsoleIntHandler has dispatched ch, this time
\* included.
RepAfter(last, ch) ==
    IF last.ctx = "isr" /\ last.ch = ch THEN last.rep + 1 ELSE 1
RunAfter(ctx, ch, run, before, after, start) ==
    IF ctx = "isr" /\ ch = "w"
    THEN IF run >= 0 THEN run + 1 ELSE IF before = start THEN 1 ELSE -1
    ELSE IF after = start THEN 0 ELSE -1

\* ----------------------------------------------------------------- initial
Init ==
    /\ optimized \in BOOLEAN
    /\ g_SysTickCount = 0
    /\ g_LED4On = FALSE
    /\ g_CharConsole = ""
    /\ g_ConsoleFlag = FALSE
    /\ g_Quit = FALSE
    /\ g_StartPosition = Zero32
    /\ g_EndPosition = Zero32
    /\ g_ui32AngleIncrement = Zero32
    /\ g_ui32ServoAngle = Zero32
    /\ led \in [LEDs -> BOOLEAN]
    /\ pwm = <<Zero32, Zero32>>
    /\ pwmPeriod = 0
    /\ pwmGenEnabled = FALSE
    /\ sysTickEnabled = FALSE
    /\ intMaster = TRUE
    /\ intSources = {}
    /\ uartOut = <<>>
    /\ byeCount = 0
    /\ pc = "start"
    /\ m_char = ""
    /\ m_ret = ""
    /\ m_reg = Zero32
    /\ actualButtonState = {}
    /\ ticks = 0
    /\ rxCount = 0
    /\ calls = [isr |-> 0, loop |-> 0, main |-> 0]
    /\ lastMenu = NoPiece
    /\ wRun = -1
    /\ lastPoll = [mask |-> {}, n |-> "none"]
    /\ isrTrace = <<>>

\* ------------------------------------------------------- main: the bring-up
\* IntMasterDisable, InitLED, TurnOffLED(5), TurnOnLED(1), ButtonsInit,
\* InitConsole, the clock speed message.
\* (variant: the bring-up leaves interrupts globally enabled)
MainInitHW_IntsOn ==
    /\ pc = "start"
    /\ intMaster' = TRUE
    /\ intSources' = {"systick", "uart"}
    /\ led' = TurnOnLED(TurnOffLED(led, 5), 1)
    /\ uartOut' = <<Text("Clock speed")>>
    /\ pc' = "init_servo"
    /\ UNCHANGED <<optimized, byeCount, globals, pwm, pwmPeriod, pwmGenEnabled,
                   sysTickEnabled, m_char, m_ret, m_reg, actualButtonState,
                   history>>
MainInitHW ==
    /\ pc = "start"
    /\ intMaster' = FALSE
    /\ intSources' = {"systick", "uart"}
    /\ led' = TurnOnLED(TurnOffLED(led, 5), 1)
    /\ uartOut' = <<Text("Clock speed")>>
    /\ pc' = "init_servo"
    /\ UNCHANGED <<optimized, byeCount, globals, pwm, pwmPeriod, pwmGenEnabled,
                   sysTickEnabled, m_char, m_ret, m_reg, actualButtonState,
                   history>>

\* InitServoMtrs and the computation of the servo range, for the period
\* InitServoMtrs returns.
InitServo(period) ==
    /\ pc = "init_servo"
    /\ pwmPeriod' = period
    /\ pwm' = <<StartPositionOf(period), StartPositionOf(period)>>
    /\ g_StartPosition' = StartPositionOf(period)
    /\ g_EndPosition' = EndPositionOf(g_StartPosition')
    /\ g_ui32AngleIncrement' =
           AngleIncrementOf(g_StartPosition', g_EndPosition')
    /\ g_ui32ServoAngle' = g_StartPosition'
    /\ uartOut' = <<Text("Initializing servo motors"),
                    Num("PWM generator period", ToU32(period)),
                    Text("Done"), Text("Initialization Complete")>>
    /\ wRun' = 0
    /\ pc' = "ready_led"
    /\ UNCHANGED <<optimized, byeCount, g_SysTickCount, g_LED4On,
                   g_CharConsole, g_ConsoleFlag, g_Quit, led, pwmGenEnabled,
                   sysTickEnabled, intMaster, intSources, m_char, m_ret,
                   m_reg, actualButtonState, ticks, rxCount, calls, lastMenu,
                   lastPoll, isrTrace>>

MainInitServo == \E period \in Periods : InitServo(period)

\* TurnOnLED(5) before the button wait.
MainReadyLED ==
    /\ pc = "ready_led"
    /\ led' = TurnOnLED(led, 5)
    /\ pc' = "wait_first"
    /\ UNCHANGED <<optimized, globals, pwm, pwmPeriod, pwmGenEnabled,
                   sysTickEnabled, intMaster, intSources, uartOut, byeCount, m_char,
                   m_ret, m_reg, actualButtonState, history>>

\* WaitForButtonPress(LEFT_BUTTON): the poll before the loop.
WaitFirstPoll ==
    /\ pc = "wait_first"
    /\ \E polled \in ButtonMasks :
        /\ actualButtonState' = polled
        /\ lastPoll' = [mask |-> polled, n |-> "first"]
    /\ pc' = "wait_test"
    /\ UNCHANGED <<optimized, globals, hw, m_char, m_ret, m_reg, ticks,
                   rxCount, calls, lastMenu, wRun, isrTrace>>

\* WaitForButtonPress(LEFT_BUTTON): the loop's test, and the return.
WaitTest ==
    /\ pc = "wait_test"
    /\ pc' = IF WaitDone(LEFT_BUTTON, actualButtonState)
             THEN "gate_open" ELSE "wait_poll"
    /\ UNCHANGED <<optimized, globals, hw, m_char, m_ret, m_reg,
                   actualButtonState, history>>

\* WaitForButtonPress(LEFT_BUTTON): a poll inside the loop.
WaitPoll ==
    /\ pc = "wait_poll"
    /\ \E polled \in ButtonMasks :
        /\ actualButtonState' = WaitMasked(LEFT_BUTTON, polled)
        /\ lastPoll' = [mask |-> polled, n |-> "later"]
    /\ pc' = "wait_test"
    /\ UNCHANGED <<optimized, globals, hw, m_char, m_ret, m_reg, ticks,
                   rxCount, calls, lastMenu, wRun, isrTrace>>

\* TurnOffLED(5), TurnOffLED(1), SysTickPeriodSet, SysTickEnable.
MainGateOpen ==
    /\ pc = "gate_open"
    /\ led' = TurnOffLED(TurnOffLED(led, 5), 1)
    /\ sysTickEnabled' = TRUE
    /\ pc' = "pwm_enable"
    /\ UNCHANGED <<optimized, globals, pwm, pwmPeriod, pwmGenEnabled,
                   intMaster, intSources, uartOut, byeCount, m_char, m_ret, m_reg,
                   actualButtonState, history>>

\* PWMGenEnable.
MainPWMEnable ==
    /\ pc = "pwm_enable"
    /\ pwmGenEnabled' = TRUE
    /\ pc' = "call_M"
    /\ UNCHANGED <<optimized, globals, led, pwm, pwmPeriod, sysTickEnabled,
                   intMaster, intSources, uartOut, byeCount, m_char, m_ret, m_reg,
                   actualButtonState, history>>

\* ----------------------------------------------------- Menu, called by main
\* What a read of g_ui32ServoAngle gives main right after main stored reg
\* in it: the memory, or in an optimized build also the register.
ServoAngleRead(reg, mem) == IF optimized THEN {reg, mem} ELSE {mem}

MainPiece(printed) ==
    /\ lastMenu' = MenuPiece("main", m_char, 0, g_ui32ServoAngle', pwm',
                            printed)
    /\ wRun' = RunAfter("main", m_char, wRun, g_ui32ServoAngle,
                        g_ui32ServoAngle', g_StartPosition)

\* main: Menu('M') after the PWM generator is enabled.
MainCallMenuM ==
    /\ pc = "call_M"
    /\ m_char' = "M"
    /\ m_ret' = "int_enable"
    /\ pc' = "menu_switch"
    /\ calls' = [calls EXCEPT !.main = @ + 1]
    /\ UNCHANGED <<optimized, globals, hw, m_reg, actualButtonState, ticks,
                   rxCount, lastMenu, wRun, lastPoll, isrTrace>>

\* Menu: the switch and the first access of the selected case.
MainMenuSwitch ==
    /\ pc = "menu_switch"
    /\ g_Quit' = MenuQuit(m_char, g_Quit)
    /\ m_reg' = IF MenuMovesServo(m_char)
                THEN MenuAngle(m_char, g_ui32ServoAngle, g_StartPosition,
                               g_EndPosition, g_ui32AngleIncrement)
                ELSE m_reg
    /\ pc' = IF MenuMovesServo(m_char) THEN "menu_store"
             ELSE IF m_char = "M" THEN "menu_print"
             ELSE "menu_reset"
    /\ UNCHANGED <<optimized, g_SysTickCount, g_LED4On, g_CharConsole,
                   g_ConsoleFlag, g_StartPosition, g_EndPosition,
                   g_ui32AngleIncrement, g_ui32ServoAngle, hw, m_char, m_ret,
                   actualButtonState, ticks, rxCount, calls, lastPoll, isrTrace>>
    /\ MainPiece(<<>>)

\* Menu: the store to g_ui32ServoAngle.
MainMenuStore ==
    /\ pc = "menu_store"
    /\ g_ui32ServoAngle' = m_reg
    /\ pc' = "menu_pwm1"
    /\ UNCHANGED <<optimized, g_SysTickCount, g_LED4On, g_CharConsole,
                   g_ConsoleFlag, g_Quit, g_StartPosition, g_EndPosition,
                   g_ui32AngleIncrement, hw, m_char, m_ret, m_reg,
                   actualButtonState, ticks, rxCount, calls, lastPoll, isrTrace>>
    /\ MainPiece(<<>>)

\* Menu: PWMPulseWidthSet(PWM0_BASE, SERVO_1, g_ui32ServoAngle).
MainMenuPWM1 ==
    /\ pc = "menu_pwm1"
    /\ \E v \in ServoAngleRead(m_reg, g_ui32ServoAngle) :
        pwm' = <<v, pwm[2]>>
    /\ pc' = "menu_pwm2"
    /\ UNCHANGED <<optimized, globals, led, pwmPeriod, pwmGenEnabled,
                   sysTickEnabled, intMaster, intSources, uartOut, byeCount, m_char,
                   m_ret, m_reg, actualButtonState, ticks, rxCount, calls, lastPoll, isrTrace>>
    /\ MainPiece(<<>>)

\* Menu: PWMPulseWidthSet(PWM0_BASE, SERVO_2, g_ui32ServoAngle).
MainMenuPWM2 ==
    /\ pc = "menu_pwm2"
    /\ \E v \in ServoAngleRead(m_reg, g_ui32ServoAngle) :
        pwm' = <<pwm[1], v>>
    /\ pc' = "menu_print"
    /\ UNCHANGED <<optimized, globals, led, pwmPeriod, pwmGenEnabled,
                   sysTickEnabled, intMaster, intSources, uartOut, byeCount, m_char,
                   m_ret, m_reg, actualButtonState, ticks, rxCount, calls, lastPoll, isrTrace>>
    /\ MainPiece(<<>>)

\* Menu: the UARTprintf calls of the selected case.
MainMenuPrint ==
    /\ pc = "menu_print"
    /\ \E v \in ServoAngleRead(m_reg, g_ui32ServoAngle) :
        /\ uartOut' = IF MenuPrints(m_char, v) = <<>> THEN uartOut
                      ELSE MenuPrints(m_char, v)
        /\ pc' = "menu_reset"
        /\ UNCHANGED <<optimized, byeCount, globals, led, pwm, pwmPeriod, pwmGenEnabled,
                       sysTickEnabled, intMaster, intSources, m_char, m_ret,
                       m_reg, actualButtonState, ticks, rxCount, calls, lastPoll, isrTrace>>
        /\ MainPiece(MenuPrints(m_char, v))

\* Menu: g_ConsoleFlag = false, and the return to main.
MainMenuReset ==
    /\ pc = "menu_reset"
    /\ g_ConsoleFlag' = MenuFlag(g_ConsoleFlag)
    /\ pc' = m_ret
    /\ UNCHANGED <<optimized, g_SysTickCount, g_LED4On, g_CharConsole, g_Quit,
                   g_StartPosition, g_EndPosition, g_ui32AngleIncrement,
                   g_ui32ServoAngle, hw, m_char, m_ret, m_reg,
                   actualButtonState, ticks, rxCount, calls, lastPoll, isrTrace>>
    /\ MainPiece(<<>>)

\* --------------------------------------------- main: the loop and shutdown
\* IntMasterEnable.
MainIntEnable ==
    /\ pc = "int_enable"
    /\ intMaster' = TRUE
    /\ pc' = "loop"
    /\ UNCHANGED <<optimized, globals, led, pwm, pwmPeriod, pwmGenEnabled,
                   sysTickEnabled, intSources, uartOut, byeCount, m_char, m_ret, m_reg,
                   actualButtonState, history>>

\* while (!g_Quit): the read of g_Quit.
MainLoopTest ==
    /\ pc = "loop"
    /\ pc' = IF g_Quit THEN "call_x" ELSE "loop_flag"
    /\ UNCHANGED <<optimized, globals, hw, m_char, m_ret, m_reg,
                   actualButtonState, history>>

\* if (g_ConsoleFlag) Menu(g_CharConsole): the read of the flag, then the
\* read of the byte and the call.  With the flag clear nothing in the loop
\* body writes g_Quit or g_ConsoleFlag, and an optimized build does not read
\* them again: it stays in the loop ("spin").
MainLoopBody ==
    /\ pc \in {"loop_flag", "loop_char"}
    /\ IF pc = "loop_char"
       THEN /\ m_char' = g_CharConsole
            /\ m_ret' = "loop"
            /\ calls' = [calls EXCEPT !.loop = @ + 1]
            /\ pc' = "menu_switch"
       ELSE /\ pc' = IF g_ConsoleFlag THEN "loop_char"
                     ELSE IF optimized THEN "spin" ELSE "loop"
            /\ UNCHANGED <<m_char, m_ret, calls>>
    /\ UNCHANGED <<optimized, globals, hw, m_reg, actualButtonState, ticks,
                   rxCount, lastMenu, wRun, lastPoll, isrTrace>>

\* The loop of an optimized build that found the flag clear: it runs on
\* without reading memory.
MainSpin ==
    /\ pc = "spin"
    /\ UNCHANGED vars

\* Menu('x') after the loop.
MainCallMenuX ==
    /\ pc = "call_x"
    /\ m_char' = "x"
    /\ m_ret' = "bye"
    /\ pc' = "menu_switch"
    /\ calls' = [calls EXCEPT !.main = @ + 1]
    /\ UNCHANGED <<optimized, globals, hw, m_reg, actualButtonState, ticks,
                   rxCount, lastMenu, wRun, lastPoll, isrTrace>>

\* The shutdown message.
MainShutdownPrint ==
    /\ pc = "bye"
    /\ uartOut' = <<Text("Dave, I'm scared. Will I dream?")>>
    /\ byeCount' = byeCount + 1
    /\ pc' = "leds_off_1"
    /\ UNCHANGED <<optimized, globals, led, pwm, pwmPeriod, pwmGenEnabled,
                   sysTickEnabled, intMaster, intSources, m_char, m_ret,
                   m_reg, actualButtonState, history>>

\* TurnOffLED(5): the write to the port of LED 1 and LED 2.
MainShutdownLEDsPort1 ==
    /\ pc = "leds_off_1"
    /\ led' = PortWrite(led, LEDPins(5) \cap LEDPort1, FALSE)
    /\ pc' = "leds_off_2"
    /\ UNCHANGED <<optimized, globals, pwm, pwmPeriod, pwmGenEnabled,
                   sysTickEnabled, intMaster, intSources, uartOut, byeCount, m_char,
                   m_ret, m_reg, actualButtonState, history>>

\* TurnOffLED(5): the write to the port of LED 3 and LED 4.
MainShutdownLEDsPort2 ==
    /\ pc = "leds_off_2"
    /\ led' = PortWrite(led, LEDPins(5) \cap LEDPort2, FALSE)
    /\ pc' = "int_disable"
    /\ UNCHANGED <<optimized, globals, pwm, pwmPeriod, pwmGenEnabled,
                   sysTickEnabled, intMaster, intSources, uartOut, byeCount, m_char,
                   m_ret, m_reg, actualButtonState, history>>

\* IntMasterDisable, and the return of main.
MainIntDisable ==
    /\ pc = "int_disable"
    /\ intMaster' = FALSE
    /\ pc' = "done"
    /\ UNCHANGED <<optimized, globals, led, pwm, pwmPeriod, pwmGenEnabled,
                   sysTickEnabled, intSources, uartOut, byeCount, m_char, m_ret, m_reg,
                   actualButtonState, history>>

\* ------------------------------------------------------ interrupt handlers
\* The SysTick interrupt is taken.
SysTickIntHandler ==
    /\ intMaster
    /\ "systick" \in intSources
    /\ sysTickEnabled
    /\ ticks < MaxTicks
    /\ IF SysTickExpired(g_SysTickCount)
       THEN /\ led' = IF g_LED4On THEN TurnOffLED(led, 4) ELSE TurnOnLED(led, 4)
            /\ g_LED4On' = ~g_LED4On
            /\ g_SysTickCount' = 0
       ELSE /\ g_SysTickCount' = g_SysTickCount + 1
            /\ UNCHANGED <<led, g_LED4On>>
    /\ ticks' = ticks + 1
    /\ UNCHANGED <<optimized, g_CharConsole, g_ConsoleFlag, g_Quit,
                   g_StartPosition, g_EndPosition, g_ui32AngleIncrement,
                   g_ui32ServoAngle, pwm, pwmPeriod, pwmGenEnabled,
                   sysTickEnabled, intMaster, intSources, uartOut, byeCount,
                   mainCtx,
                   rxCount, calls, lastMenu, wRun, lastPoll, isrTrace>>

\* The console receive interrupt is taken: one byte of chars is read,
\* echoed and handed to Menu (at most max times in a run).
ConsoleInt(chars, max) ==
    /\ intMaster
    /\ "uart" \in intSources
    /\ rxCount < max
    /\ \E c \in chars :
        LET angle == MenuAngle(c, g_ui32ServoAngle, g_StartPosition,
                               g_EndPosition, g_ui32AngleIncrement)
            printed == MenuPrints(c, angle)
        IN  /\ g_CharConsole' = c
            /\ rxCount' = rxCount + 1
            /\ calls' = [calls EXCEPT !.isr = @ + 1]
            /\ g_Quit' = MenuQuit(c, g_Quit)
            /\ g_ui32ServoAngle' = angle
            /\ pwm' = IF MenuMovesServo(c) THEN <<angle, angle>> ELSE pwm
            /\ isrTrace' = ConsoleIntTrace(c)
            /\ uartOut' = TraceOutput(isrTrace', c, printed)
            /\ g_ConsoleFlag' = MenuFlag(g_ConsoleFlag)
            /\ lastMenu' = MenuPiece("isr", c, RepAfter(lastMenu, c), angle, pwm',
                                    printed)
            /\ wRun' = RunAfter("isr", c, wRun, g_ui32ServoAngle, angle,
                                g_StartPosition)
    /\ UNCHANGED <<optimized, byeCount, g_SysTickCount, g_LED4On, g_StartPosition,
                   g_EndPosition, g_ui32AngleIncrement, led, pwmPeriod,
                   pwmGenEnabled, sysTickEnabled, intMaster, intSources,
                   mainCtx, ticks, lastPoll>>

\* (variant: the handler raises g_ConsoleFlag and leaves the call of Menu
\* to the main loop)
ConsoleIntHandler_Deferred ==
    /\ intMaster
    /\ "uart" \in intSources
    /\ rxCount < MaxRx
    /\ \E c \in Chars :
        /\ g_CharConsole' = c
        /\ uartOut' = <<Echo(c)>>
        /\ isrTrace' = <<"get", "echo", "raise">>
    /\ rxCount' = rxCount + 1
    /\ g_ConsoleFlag' = TRUE
    /\ UNCHANGED <<optimized, byeCount, g_SysTickCount, g_LED4On, g_Quit,
                   g_StartPosition, g_EndPosition, g_ui32AngleIncrement,
                   g_ui32ServoAngle, led, pwm, pwmPeriod, pwmGenEnabled,
                   sysTickEnabled, intMaster, intSources, mainCtx, ticks,
                   calls, lastMenu, wRun, lastPoll>>

\* The console receive interrupt, for any byte.
ConsoleIntHandler == ConsoleInt(Chars, MaxRx)

\* The console receive interrupt of the decrease-only specification.
ConsoleDecrease == ConsoleInt(DecChars, MaxDec)

\* ------------------------------------------------------------ specification
Main ==
    \/ MainInitHW \/ MainInitServo \/ MainReadyLED
    \/ WaitFirstPoll \/ WaitTest \/ WaitPoll
    \/ MainGateOpen \/ MainPWMEnable \/ MainCallMenuM
    \/ MainMenuSwitch \/ MainMenuStore \/ MainMenuPWM1 \/ MainMenuPWM2
    \/ MainMenuPrint \/ MainMenuReset
    \/ MainIntEnable \/ MainLoopTest \/ MainLoopBody \/ MainSpin
    \/ MainCallMenuX
    \/ MainShutdownPrint \/ MainShutdownLEDsPort1 \/ MainShutdownLEDsPort2
    \/ MainIntDisable

Next == Main \/ SysTickIntHandler \/ ConsoleIntHandler

Spec == Init /\ [][Next]_vars

\* The computation of the servo range alone, over every period up to
\* MaxPeriod.
RangeBringUp == \E period \in 0..MaxPeriod : InitServo(period)
RangeNext == MainInitHW \/ RangeBringUp
RangeSpec == Init /\ [][RangeNext]_vars

\* The program up to and in its main loop, receiving only 's': long runs of
\* decrements from the start position.
DecNext ==
    \/ MainInitHW \/ MainInitServo \/ MainReadyLED
    \/ WaitFirstPoll \/ WaitTest \/ WaitPoll
    \/ MainGateOpen \/ MainPWMEnable \/ MainCallMenuM
    \/ MainMenuSwitch \/ MainMenuPrint \/ MainMenuReset
    \/ MainIntEnable \/ MainLoopTest \/ MainLoopBody \/ MainSpin
    \/ ConsoleDecrease
DecSpec == Init /\ [][DecNext]_vars

\* The main context keeps running: the processor executes main whenever no
\* handler runs.
FairSpec == Spec /\ WF_vars(Main)

\* ================================================================== claims
\* Positions of main.
LoopPcs == {"loop", "loop_flag", "loop_char", "spin"}
BeforeRangePcs == {"start", "init_servo"}
BeforeGatePcs == {"start", "init_servo", "ready_led", "wait_first",
                  "wait_test", "wait_poll"}
Returned == pc = "done"
\* main is inside a call of Menu.
MenuPcs == {"menu_switch", "menu_store", "menu_pwm1", "menu_pwm2",
            "menu_print", "menu_reset"}

\* ---------------------------------------------------------------------- C1
\* C1 as stated: counting the invocations of SysTickIntHandler, LED 4 has
\* changed state once for every 5 ticks (on ticks 5, 10, 15, ...) while the
\* main loop runs.
C1_ToggleEvery5 ==
    pc \in LoopPcs => (led[4] <=> ((ticks \div 5) % 2 = 1))

\* C1 amended: the handler flips g_LED4On and writes the new value to the
\* LED 4 pin exactly on ticks 6, 12, 18, ... and changes neither on any
\* other tick; nothing else flips g_LED4On, whatever console interrupts are
\* interleaved.
C1_ToggleEvery6 ==
    /\ [](g_LED4On <=> ((ticks \div 6) % 2 = 1))
    /\ [][ticks' = ticks + 1 =>
            IF ticks' % 6 = 0
            THEN g_LED4On' = ~g_LED4On /\ led'[4] = g_LED4On'
            ELSE g_LED4On' = g_LED4On /\ led'[4] = led[4]]_vars

\* Two toggles have happened, with console bytes received along the way.
C1_Witness ==
    ticks = 12 /\ ~g_LED4On /\ ~led[4] /\ rxCount >= 2 /\ pc \in LoopPcs

C3_ServoAtStartOnReturn ==
    (Returned /\ g_Quit) =>
        /\ g_ui32ServoAngle = g_StartPosition
        /\ pwm = <<g_StartPosition, g_StartPosition>>

\* ---------------------------------------------------------------------- C4
\* C4: when main returns after a quit, LED 1 to LED 4 are all off.
C4_AllLEDsOffOnReturn ==
    (Returned /\ g_Quit) => \A n \in LEDs : ~led[n]

C6_StepPositiveFrom40 ==
    (pc = "ready_led" /\ pwmPeriod >= 40) => g_ui32AngleIncrement # Zero32

\* C6 amended: the step computed at bring-up is greater than 0 exactly for
\* the periods P >= 1000 (start_pulse >= 25); for 40 <= P < 1000 it is 0.
C6_StepPositiveFrom1000 ==
    pc = "ready_led" =>
        /\ g_StartPosition = ToU32(pwmPeriod \div 40)
        /\ (g_ui32AngleIncrement # Zero32 <=> pwmPeriod >= 1000)

\* The smallest period with a step: start 25, end 125, step 1.
C6_Witness ==
    /\ pc = "ready_led"
    /\ pwmPeriod = 1000
    /\ g_StartPosition = ToU32(25)
    /\ g_ui32AngleIncrement = ToU32(1)

\* ---------------------------------------------------------------------- C7
\* C7: after bring-up has computed the servo range, g_EndPosition is
\* g_StartPosition * 5 and g_ui32AngleIncrement is (g_EndPosition -
\* g_StartPosition) / 100, and no later step changes any of the three.
C7_RangeFixed ==
    /\ [](pc \notin BeforeRangePcs =>
            /\ g_EndPosition = Mul32(g_StartPosition, 5)
            /\ g_ui32AngleIncrement =
                   Div32(Sub32(g_EndPosition, g_StartPosition), 100))
    /\ [][pc \notin BeforeRangePcs =>
            UNCHANGED <<g_StartPosition, g_EndPosition,
                        g_ui32AngleIncrement>>]_vars

\* main has returned after commands of every kind moved the servo.
C7_Witness ==
    /\ Returned
    /\ rxCount = MaxRx
    /\ g_StartPosition = ToU32(937)
    /\ g_EndPosition = ToU32(4685)
    /\ g_ui32AngleIncrement = ToU32(37)

C9_Idempotent ==
    /\ []((lastMenu.ctx = "isr" /\ lastMenu.ch = "x") =>
            /\ g_ui32ServoAngle = g_StartPosition
            /\ pwm = <<g_StartPosition, g_StartPosition>>)
    /\ []((lastMenu.ctx = "isr" /\ lastMenu.ch = "e") =>
            /\ g_ui32ServoAngle = g_EndPosition
            /\ pwm = <<g_EndPosition, g_EndPosition>>)
    /\ [][(/\ lastMenu'.ctx = "isr"
           /\ lastMenu'.ch \in {"x", "e"}
           /\ lastMenu'.rep >= 2) =>
            UNCHANGED <<g_ui32ServoAngle, pwm>>]_vars

\* 'e' dispatched twice in a row, away from the start position.
C9_Witness ==
    /\ lastMenu.ctx = "isr"
    /\ lastMenu.ch = "e"
    /\ lastMenu.rep = 2
    /\ g_ui32ServoAngle = g_EndPosition
    /\ g_EndPosition # g_StartPosition

\* --------------------------------------------------------------------- C10
\* C10 as stated: WaitForButtonPress(LEFT_BUTTON) has returned only if the
\* most recent ButtonsPoll gave exactly LEFT_BUTTON.
C10_ReturnsOnExactMask ==
    pc \notin BeforeGatePcs => lastPoll.mask = LEFT_BUTTON

\* C10 amended: at its test WaitForButtonPress(LEFT_BUTTON) returns if the
\* poll before the loop gave exactly LEFT_BUTTON or a poll inside the loop
\* gave a mask with the left button pressed (the right button pressed or
\* not), and polls again otherwise; so it returns only with the left button
\* pressed in the most recent poll, and both buttons pressed together end
\* the wait on every poll but the first.
C10_ReturnsOnLeftPressed ==
    /\ [](pc \notin BeforeGatePcs =>
            /\ "left" \in lastPoll.mask
            /\ lastPoll.n = "first" => lastPoll.mask = LEFT_BUTTON)
    /\ [][pc = "wait_test" =>
            pc' = IF \/ lastPoll.n = "first" /\ lastPoll.mask = LEFT_BUTTON
                     \/ lastPoll.n = "later" /\ "left" \in lastPoll.mask
                  THEN "gate_open" ELSE "wait_poll"]_vars

\* The wait ended on a poll inside the loop with both buttons pressed.
C10_Witness ==
    /\ pc = "gate_open"
    /\ lastPoll.n = "later"
    /\ lastPoll.mask = ALL_BUTTONS

\* --------------------------------------------------------------------- C11
\* C11: a dispatch through Menu of a byte outside {'M','Q','w','s','x','e'}
\* changes neither g_ui32ServoAngle nor a PWM channel value nor g_Quit,
\* prints nothing (the console carries the handler's echo of the byte and
\* nothing from Menu), and leaves main where it was: no error state.
C11_UnknownByteNoOp ==
    [][(rxCount' = rxCount + 1 /\ g_CharConsole' \notin MenuCases) =>
          /\ lastMenu'.ctx = "isr"
          /\ lastMenu'.ch = g_CharConsole'
          /\ UNCHANGED <<g_ui32ServoAngle, pwm, g_Quit>>
          /\ lastMenu'.printed = <<>>
          /\ uartOut' = <<Echo(g_CharConsole')>>
          /\ UNCHANGED <<byeCount, mainCtx, intMaster, intSources>>]_vars

\* An unknown byte was dispatched with the servo away from its start
\* position and no quit requested.
C11_Witness ==
    /\ lastMenu.ctx = "isr"
    /\ lastMenu.ch = "z"
    /\ lastMenu.printed = <<>>
    /\ uartOut = <<Echo("z")>>
    /\ g_ui32ServoAngle # g_StartPosition
    /\ pwm = <<g_ui32ServoAngle, g_ui32ServoAngle>>
    /\ ~g_Quit

\* --------------------------------------------------------------------- C12
\* C12: g_Quit is false at the start, a step changes it only from false to
\* true and only by dispatching the byte 'Q' through Menu, every dispatch of
\* 'Q' leaves it true, and once true it is true in every later state.
C12_QuitOnlyByQ ==
    /\ [][g_Quit' # g_Quit =>
            /\ ~g_Quit /\ g_Quit'
            /\ rxCount' = rxCount + 1
            /\ g_CharConsole' = "Q"
            /\ lastMenu'.ch = "Q"]_vars
    /\ [][(rxCount' = rxCount + 1 /\ g_CharConsole' = "Q") => g_Quit']_vars
    /\ [][g_Quit => g_Quit']_vars
    /\ [](calls.isr + calls.main + calls.loop = 0 => ~g_Quit)

\* main has returned; 'Q' was followed by a second 'Q' and another command
\* and by main's own Menu('x'), and g_Quit is still true.
C12_Witness ==
    /\ Returned
    /\ g_Quit
    /\ rxCount = 3
    /\ calls.main = 2
    /\ lastMenu.ctx = "isr"
    /\ lastMenu.ch = "Q"
    /\ lastMenu.rep = 2

\* --------------------------------------------------------------------- C13
\* C13: every step that stores a received byte in g_CharConsole leaves
\* g_ConsoleFlag true; the main loop, finding the flag true, calls Menu with
\* that byte; and Menu ends with the flag false.
C13_FlagRaisedThenMainDispatches ==
    /\ [][rxCount' = rxCount + 1 => g_ConsoleFlag']_vars
    /\ [][(pc = "loop_flag" /\ g_ConsoleFlag /\ pc' # pc) =>
            pc' = "loop_char"]_vars
    /\ [][pc = "loop_char" =>
            (m_char' = g_CharConsole /\ pc' = "menu_switch")]_vars
    /\ [][pc = "menu_reset" => ~g_ConsoleFlag']_vars

\* --------------------------------------------------------------------- C14
\* C14: in every run of ConsoleIntHandler the echo of the received byte is
\* issued before Menu is entered: the echo comes before the write of
\* g_Quit, the store to g_ui32ServoAngle, both PWM writes and the printed
\* status in the order of the handler's accesses, each effect the step has
\* is one of those accesses, and on the console the echo is the first call
\* and what the command prints follows it.
C14_EchoBeforeDispatch ==
    [][rxCount' = rxCount + 1 =>
        LET t == isrTrace'
            at(e) == {i \in 1..Len(t) : t[i] = e}
            effects == {"quit", "angle", "pwm1", "pwm2", "print", "flag"}
        IN  /\ Cardinality(at("echo")) = 1
            /\ \A e \in effects : \A i \in at("echo"), j \in at(e) : i < j
            /\ g_Quit' # g_Quit => at("quit") # {}
            /\ g_ui32ServoAngle' # g_ui32ServoAngle => at("angle") # {}
            /\ pwm'[1] # pwm[1] => at("pwm1") # {}
            /\ pwm'[2] # pwm[2] => at("pwm2") # {}
            /\ lastMenu'.printed # <<>> <=> at("print") # {}
            /\ lastMenu'.ch = g_CharConsole'
            /\ uartOut' = <<Echo(g_CharConsole')>> \o lastMenu'.printed]_vars

\* A received 's' was echoed, then moved the servo and printed its status.
C14_Witness ==
    /\ lastMenu.ctx = "isr"
    /\ lastMenu.ch = "s"
    /\ isrTrace = <<"get", "echo", "angle", "pwm1", "pwm2", "print", "flag">>
    /\ Len(uartOut) = 2
    /\ uartOut[1] = Echo("s")
    /\ uartOut[2] = Num("Angle Decrease", g_ui32ServoAngle)
    /\ g_ui32ServoAngle # g_StartPosition

\* --------------------------------------------------------------------- C15
\* C15: ConsoleIntHandler never dispatches a byte through Menu while main
\* is inside a call of Menu of its own (Menu('M') at start-up, Menu('x') at
\* shutdown, or the call in the loop): a call of Menu by main runs from its
\* switch to its return with no other call of Menu in between.  (At
\* "menu_switch" main has not executed a statement of Menu yet.)
C15_NoMenuInsideMenu ==
    [][rxCount' = rxCount + 1 => pc \notin MenuPcs \ {"menu_switch"}]_vars

\* --------------------------------------------------------------------- C16
\* C16: once bring-up has set the servo range and the start angle, in every
\* state in which main is not inside a call of Menu (no handler is ever
\* inside one between two steps) both PWM channels hold the same pulse
\* width, and it is g_ui32ServoAngle.
C16_ChannelsFollowAngle ==
    (pc \notin BeforeRangePcs /\ pc \notin MenuPcs) =>
        pwm = <<g_ui32ServoAngle, g_ui32ServoAngle>>

\* --------------------------------------------------------------------- C17
\* C17: as long as WaitForButtonPress has not returned (main is before it
\* or inside it: no poll has shown the left button pressed), the PWM
\* generator and the SysTick counter are not enabled, no handler has run,
\* no byte has been dispatched and g_ui32ServoAngle is g_StartPosition;
\* handlers run only with the PWM generator enabled, and the step that
\* enables interrupts globally finds the PWM generator already enabled.
C17_StartupGate ==
    /\ [](pc \in BeforeGatePcs =>
            /\ ~pwmGenEnabled
            /\ ~sysTickEnabled
            /\ ticks = 0 /\ rxCount = 0
            /\ calls.isr + calls.loop + calls.main = 0
            /\ g_ui32ServoAngle = g_StartPosition)
    /\ [][(ticks' # ticks \/ rxCount' # rxCount) =>
            (pc \notin BeforeGatePcs /\ pwmGenEnabled)]_vars
    /\ [][(~intMaster /\ intMaster') => pwmGenEnabled]_vars
    /\ [][(pc \in BeforeGatePcs /\ pc' \notin BeforeGatePcs) =>
            (pc = "wait_test" /\ "left" \in lastPoll.mask)]_vars

\* main is waiting, the last poll showed the left button released, both
\* interrupt sources are set up and the servo range is computed.
C17_Witness ==
    /\ pc = "wait_poll"
    /\ lastPoll.n = "later"
    /\ "left" \notin lastPoll.mask
    /\ intSources = {"systick", "uart"}
    /\ g_StartPosition = ToU32(937)
    /\ ~pwmGenEnabled /\ ~sysTickEnabled
    /\ rxCount = 0 /\ ticks = 0

\* --------------------------------------------------------------------- C18
\* C18: a dispatch of 's' stores g_ui32ServoAngle - g_ui32AngleIncrement
\* modulo 2^32 in g_ui32ServoAngle and writes the new value to both PWM
\* channels.  With both below 2^16: the result is the plain difference when
\* the angle is at least the step, and 2^32 - (step - angle) when the angle
\* is smaller than the step.  Nothing clamps at g_StartPosition: after k
\* dispatches of 's' in a row from the start position the angle is
\* g_StartPosition - k * g_ui32AngleIncrement modulo 2^32.
C18_DecreaseWraps ==
    /\ [][(rxCount' = rxCount + 1 /\ g_CharConsole' = "s") =>
            /\ g_ui32ServoAngle' =
                   Sub32(g_ui32ServoAngle, g_ui32AngleIncrement)
            /\ pwm' = <<g_ui32ServoAngle', g_ui32ServoAngle'>>
            /\ (g_ui32ServoAngle[1] = 0 /\ g_ui32AngleIncrement[1] = 0) =>
                  g_ui32ServoAngle' =
                      IF g_ui32ServoAngle[2] >= g_ui32AngleIncrement[2]
                      THEN <<0, g_ui32ServoAngle[2] - g_ui32AngleIncrement[2]>>
                      ELSE <<Half - 1,
                             Half - (g_ui32AngleIncrement[2]
                                     - g_ui32ServoAngle[2])>>]_vars
    /\ []((rxCount > 0 /\ rxCount = lastMenu.rep /\ lastMenu.ch = "s") =>
            g_ui32ServoAngle =
                Sub32(g_StartPosition, Mul32(g_ui32AngleIncrement, rxCount)))

\* The 26th 's' in a row from start 937 with step 37 took the angle from 12
\* to 2^32 - 25.
C18_Witness ==
    /\ lastMenu.ctx = "isr"
    /\ lastMenu.ch = "s"
    /\ lastMenu.rep = 26
    /\ g_StartPosition = ToU32(937)
    /\ g_ui32AngleIncrement = ToU32(37)
    /\ g_ui32ServoAngle = <<Half - 1, Half - 25>>
    /\ pwm = <<g_ui32ServoAngle, g_ui32ServoAngle>>

C20_FlagMatchesPin ==
    /\ [](pc # "start" => (g_LED4On <=> led[4]))
    /\ [][(pc # "start" /\ led'[4] # led[4]) => ticks' = ticks + 1]_vars

====
